---- MODULE Spec2Model ----
(***************************************************************************)
(* Model of freelru-otel: the process-wide cache registry                  *)
(* (cacheRegistry: add / forEach / reset under a sync.RWMutex), the        *)
(* one-shot registration gate metricsRegistered, InstrumentCache,          *)
(* registerAllMetrics with its single multi-instrument callback, and       *)
(* resetForTesting.  Goroutines calling InstrumentCache, the metric sink   *)
(* invoking the callback and the test goroutine calling resetForTesting    *)
(* interleave at the granularity of lock operations, the atomic            *)
(* compare-and-swap and the calls into the sink.                           *)
(***************************************************************************)
EXTENDS Integers, Sequences, FiniteSets, TLC

(***************************************************************************)
(* Bounds of the model.                                                    *)
(***************************************************************************)
MaxOps == 1      \* cache operations (Add/Get/Remove) performed on the caches
MaxResets == 1   \* calls of resetForTesting
MaxRegs == 2     \* cap on instruments / callbacks / scopes counted per sink
MaxOpts == 2     \* options passed to one InstrumentCache call
MaxEntries == 2  \* entries the slice of the permissive registry grows to

Names == {"a", "b"}                 \* cache names passed to InstrumentCache
Callers == {"g1", "g2"}             \* goroutines calling InstrumentCache
Samplers == {"s1"}                  \* sink goroutines invoking the callback
Readers == {"s1", "s2"}             \* the same, where two samples may overlap
Tester == "t"                       \* goroutine calling resetForTesting
None == "none"

\* Every caller instruments the cache it created itself.
CacheOf(p) == IF p = "g1" THEN "c1" ELSE "c2"
Handles == {CacheOf(p) : p \in Callers}

(***************************************************************************)
(* Metric sinks (metric.MeterProvider).  "global" is the one returned by   *)
(* otel.GetMeterProvider(); "custom" is passed with WithMeterProvider;     *)
(* "nometer" returns a nil Meter; "faulty" may return an error from        *)
(* Int64ObservableCounter or RegisterCallback.                             *)
(***************************************************************************)
Providers == {"global", "custom", "nometer", "faulty"}
GetMeterProvider == "global"
NilMeterProviders == {"nometer"}
FaultyProviders == {"faulty"}
Working(P) == P \notin NilMeterProviders \cup FaultyProviders
SinkError == "sink error"

(***************************************************************************)
(* The six instruments in the order registerAllMetrics creates them, and   *)
(* the field of freelru.Metrics each one observes.                         *)
(***************************************************************************)
Instruments ==
  << "cache.hit", "cache.miss", "cache.insert",
     "cache.eviction", "cache.collision", "cache.removal" >>
Fields == {"Hits", "Misses", "Inserts", "Evictions", "Collisions", "Removals"}
MetricNames == {Instruments[i] : i \in 1..Len(Instruments)}

(***************************************************************************)
(* uint64 counters, kept at full width as four 16-bit limbs, most          *)
(* significant first.                                                      *)
(***************************************************************************)
Limb == 2^16
HalfLimb == 2^15
Zero64 == <<0, 0, 0, 0>>
MaxInt64 == <<HalfLimb - 1, Limb - 1, Limb - 1, Limb - 1>>   \* 2^63 - 1

\* u + 1 modulo 2^64
Inc64(u) ==
  IF u[4] < Limb - 1 THEN <<u[1], u[2], u[3], u[4] + 1>>
  ELSE IF u[3] < Limb - 1 THEN <<u[1], u[2], u[3] + 1, 0>>
  ELSE IF u[2] < Limb - 1 THEN <<u[1], u[2] + 1, 0, 0>>
  ELSE IF u[1] < Limb - 1 THEN <<u[1] + 1, 0, 0, 0>>
  ELSE Zero64

\* 2^64 - u for u # 0 (two's complement negation)
Neg64(u) ==
  Inc64(<<Limb - 1 - u[1], Limb - 1 - u[2], Limb - 1 - u[3], Limb - 1 - u[4]>>)

\* faulty variant: a counter of 2^63 or more is reported as 2^63 - 1
ToInt64Saturating(u) ==
  IF u[1] < HalfLimb THEN [neg |-> FALSE, mag |-> u]
  ELSE [neg |-> FALSE, mag |-> MaxInt64]

\* int64(u): the bits of u read as a signed value; neg = TRUE means -mag
ToInt64(u) ==
  IF u[1] < HalfLimb THEN [neg |-> FALSE, mag |-> u]
  ELSE [neg |-> TRUE, mag |-> Neg64(u)]

(***************************************************************************)
(* State.                                                                  *)
(***************************************************************************)
VARIABLES
  caches,             \* registry.caches: [nil, m]; m maps names to cache handles
  writer,             \* registry.RWMutex: goroutine holding the write lock, or None
  readers,            \* registry.RWMutex: goroutines holding the read lock
  metricsRegistered,  \* the atomic.Bool gate of InstrumentCache
  metricsOnce,        \* the sync.Once that resetForTesting re-creates (TRUE = done)
  counters,           \* freelru.Metrics of every cache handle
  pc,                 \* position of every InstrumentCache caller
  name,               \* InstrumentCache's name argument while the call runs
  cfg,                \* InstrumentCache's resolved config while the call runs
  given,              \* the options a call was given (kept by OptSpec only)
  ret,                \* the error the latest return of InstrumentCache returned
  scopes,             \* per sink: number of Meter(...) scopes requested
  instruments,        \* per sink and metric name: instruments created
  callbacks,          \* per sink: callbacks registered
  spc,                \* position of every sampler (the sink running the callback)
  sink,               \* the sink whose callback the sampler runs
  todo,               \* names the running forEach has still to visit
  obs,                \* the observations made by the sampler's current / last sample
  tpc,                \* position of the goroutine calling resetForTesting
  ops,                \* number of cache operations performed
  epoch,              \* number of resets performed
  \* history of the current epoch, read by the properties only
  defined,            \* per metric name: instruments created since the last reset
  clean,              \* every call since the last reset resolved a working sink
  late,               \* names whose call lost the gate and has returned
  adds,               \* successful calls of registry.add since the last reset
  past                \* names registered before a reset (kept by RegistrySpec only)

vars ==
  << caches, writer, readers, metricsRegistered, metricsOnce, counters,
     pc, name, cfg, ret, scopes, instruments, callbacks,
     spc, sink, todo, obs, tpc, ops, epoch, defined, clean, late,
     given, adds, past >>

callerVars == << pc, name, cfg, ret, given >>
sinkVars == << scopes, instruments, callbacks >>
samplerVars == << spc, sink, todo, obs >>
lockVars == << writer, readers >>
histVars == << defined, clean, late, adds, past >>

NilErr == "nil"          \* the nil error
Empty == << >>           \* the map without entries

\* fmt.Errorf("cache with name '%s' already exists", name)
Errorf(n) == "cache with name '" \o n \o "' already exists"

(***************************************************************************)
(* Counters a cache can show when it is handed to InstrumentCache: a new   *)
(* cache, a cache after two inserts, one hit and one miss, and a cache     *)
(* whose counters stand at 2^63 - 1.  The first cache starts used, the     *)
(* second one old.                                                         *)
(***************************************************************************)
Fresh == [f \in Fields |-> Zero64]
Used ==
  [f \in Fields |->
     IF f = "Inserts" THEN <<0, 0, 0, 2>>
     ELSE IF f \in {"Hits", "Misses"} THEN <<0, 0, 0, 1>>
     ELSE Zero64]
Old == [f \in Fields |-> MaxInt64]
StartMetrics(c) == IF c = "c1" THEN {Used} ELSE {Old}

Init ==
  /\ caches = [nil |-> TRUE, m |-> Empty]
  /\ writer = None
  /\ readers = {}
  /\ metricsRegistered = FALSE
  /\ metricsOnce = FALSE
  /\ counters \in {cs \in [Handles -> {Fresh, Used, Old}] : \A c \in Handles : cs[c] \in StartMetrics(c)}
  /\ pc = [p \in Callers |-> "idle"]
  /\ name = [p \in Callers |-> None]
  /\ cfg = [p \in Callers |-> [meterProvider |-> GetMeterProvider]]
  /\ ret = NilErr
  /\ scopes = [P \in Providers |-> 0]
  /\ instruments = [P \in Providers |-> [i \in MetricNames |-> 0]]
  /\ callbacks = [P \in Providers |-> 0]
  /\ spc = [s \in Readers |-> "idle"]
  /\ sink = [s \in Readers |-> None]
  /\ todo = [s \in Readers |-> {}]
  /\ obs = [s \in Readers |-> << >>]
  /\ tpc = "idle"
  /\ ops = 0
  /\ epoch = 0
  /\ defined = [i \in MetricNames |-> 0]
  /\ clean = TRUE
  /\ late = {}
  /\ given = [p \in Callers |-> << >>]
  /\ adds = 0
  /\ past = {}

(***************************************************************************)
(* sync.RWMutex: Lock needs no holder at all, RLock needs no writer.       *)
(***************************************************************************)
CanLock == writer = None /\ readers = {}

\* faulty variant: RLock does not wait for a writer
CanRLockAlways == TRUE

CanRLock == writer = None

(***************************************************************************)
(* Options.  WithMeterProvider(provider) is the closure that stores        *)
(* provider in config.meterProvider; InstrumentCache starts from           *)
(* otel.GetMeterProvider() and applies the options in order.               *)
(***************************************************************************)
WithMeterProvider(provider) == [meterProvider |-> provider]
OptionLists == UNION {[1..k -> {WithMeterProvider(P) : P \in Providers}] : k \in 0..MaxOpts}

RECURSIVE ApplyFrom(_, _, _)
ApplyFrom(c, opts, i) ==
  IF i > Len(opts) THEN c
  ELSE ApplyFrom([c EXCEPT !.meterProvider = opts[i].meterProvider], opts, i + 1)

\* faulty variant: once an option has set the sink, later options are ignored
ResolveConfigFirstWins(opts) ==
  IF Len(opts) = 0 THEN [meterProvider |-> GetMeterProvider]
  ELSE [meterProvider |-> opts[1].meterProvider]

ResolveConfig(opts) == ApplyFrom([meterProvider |-> GetMeterProvider], opts, 1)

\* the configs InstrumentCache can resolve from the option lists
Configs == {ResolveConfig(opts) : opts \in OptionLists}

(***************************************************************************)
(* cacheRegistry.add, between Lock and the deferred Unlock: the registry   *)
(* after the call and the error returned.                                  *)
(***************************************************************************)
\* faulty variant: the lookup tests whether the map holds anything at all
existsAny(m, n) == m # Empty

\* faulty variant: the lookup never finds the name
existsNever(m, n) == FALSE

exists(m, n) == n \in DOMAIN m

\* faulty variant: a name that exists is bound to the new cache before the
\* error is returned
addRebinds(r, cache, n) ==
  LET m0 == IF r.nil THEN Empty ELSE r.m IN
  [caches |-> [nil |-> FALSE, m |-> (n :> cache) @@ m0],
   err |-> IF n \in DOMAIN m0 THEN Errorf(n) ELSE NilErr]

\* faulty variant: the entry is stored without the existence check
addOverwrite(r, cache, n) ==
  LET m0 == IF r.nil THEN Empty ELSE r.m IN
  [caches |-> [nil |-> FALSE, m |-> (n :> cache) @@ m0], err |-> NilErr]

add(r, cache, n) ==
  LET m0 == IF r.nil THEN Empty ELSE r.m IN
  IF exists(m0, n)
  THEN [caches |-> [nil |-> FALSE, m |-> m0], err |-> Errorf(n)]
  ELSE [caches |-> [nil |-> FALSE, m |-> (n :> cache) @@ m0], err |-> NilErr]

\* faulty variant: reset allocates a map only when there is none
resetKeeps(r) == [nil |-> FALSE, m |-> IF r.nil THEN Empty ELSE r.m]

\* cacheRegistry.reset, between Lock and Unlock
reset(r) == [nil |-> FALSE, m |-> Empty]

\* faulty variant: the swap succeeds whatever the flag holds
CompareAndSwapAlways(v, old, new) == [swapped |-> TRUE, value |-> new]

\* atomic.Bool.CompareAndSwap(old, new) on a flag holding v
CompareAndSwap(v, old, new) ==
  [swapped |-> v = old, value |-> IF v = old THEN new ELSE v]

(***************************************************************************)
(* InstrumentCache.                                                        *)
(***************************************************************************)
\* return err: the call's locals die with it
Return(p, err) ==
  /\ pc' = [pc EXCEPT ![p] = "idle"]
  /\ ret' = err
  /\ name' = [name EXCEPT ![p] = None]
  /\ cfg' = [cfg EXCEPT ![p] = [meterProvider |-> GetMeterProvider]]
  /\ given' = [given EXCEPT ![p] = << >>]

Goto(p, label) ==
  /\ pc' = [pc EXCEPT ![p] = label]
  /\ UNCHANGED << name, cfg, ret, given >>

\* Lines 44-54: resolve the config, call registry.add, which takes the lock.
InstrumentCache(p, n, c) ==
  /\ pc[p] = "idle"
  /\ CanLock
  /\ writer' = p
  /\ pc' = [pc EXCEPT ![p] = "add"]
  /\ name' = [name EXCEPT ![p] = n]
  /\ cfg' = [cfg EXCEPT ![p] = c]
  /\ clean' = (clean /\ Working(c.meterProvider))
  /\ UNCHANGED << caches, readers, metricsRegistered, metricsOnce, counters, ret,
                  sinkVars, samplerVars, tpc, ops, epoch, defined, late,
                  given, adds, past >>

\* faulty variant: the error of registry.add is dropped and the call goes on
AddIgnoringError(p) ==
  /\ pc[p] = "add"
  /\ writer = p
  /\ caches' = add(caches, CacheOf(p), name[p]).caches
  /\ Goto(p, "CompareAndSwap")
  /\ writer' = None
  /\ UNCHANGED << readers, metricsRegistered, metricsOnce, counters,
                  sinkVars, samplerVars, tpc, ops, epoch, histVars >>

\* registry.add under the lock, the deferred Unlock, and lines 54-56.
Add(p) ==
  /\ pc[p] = "add"
  /\ writer = p
  /\ LET r == add(caches, CacheOf(p), name[p]) IN
       /\ caches' = r.caches
       /\ IF r.err # NilErr
          THEN Return(p, r.err) /\ adds' = adds
          ELSE Goto(p, "CompareAndSwap") /\ adds' = adds + 1
  /\ writer' = None
  /\ UNCHANGED << readers, metricsRegistered, metricsOnce, counters,
                  sinkVars, samplerVars, tpc, ops, epoch, defined, clean, late, past >>

\* faulty variant: the flag is read but never written
GateNoSwap(p) ==
  /\ pc[p] = "CompareAndSwap"
  /\ IF metricsRegistered
     THEN Return(p, NilErr) /\ late' = late \cup {name[p]}
     ELSE Goto(p, "Meter") /\ late' = late
  /\ UNCHANGED << caches, lockVars, metricsRegistered, metricsOnce, counters,
                  sinkVars, samplerVars, tpc, ops, epoch, defined, clean,
                  adds, past >>

\* faulty variant: a call that finds the flag set waits until the winner has
\* left the registration path, as sync.Once.Do would
GateWaits(p) ==
  /\ pc[p] = "CompareAndSwap"
  /\ LET r == CompareAndSwap(metricsRegistered, FALSE, TRUE) IN
       /\ metricsRegistered' = r.value
       /\ IF ~r.swapped
          THEN /\ \A q \in Callers :
                    pc[q] \notin {"Meter", "registerAllMetrics", "RegisterCallback"}
               /\ Return(p, NilErr)
               /\ late' = late \cup {name[p]}
          ELSE Goto(p, "Meter") /\ late' = late
  /\ UNCHANGED << caches, lockVars, metricsOnce, counters,
                  sinkVars, samplerVars, tpc, ops, epoch, defined, clean,
                  adds, past >>

\* faulty variant: the call that finds the flag set takes its entry out of
\* the registry before it returns
GateUnregisters(p) ==
  /\ pc[p] = "CompareAndSwap"
  /\ LET r == CompareAndSwap(metricsRegistered, FALSE, TRUE) IN
       /\ metricsRegistered' = r.value
       /\ IF ~r.swapped
          THEN /\ Return(p, NilErr)
               /\ late' = late \cup {name[p]}
               /\ caches' = [caches EXCEPT !.m = [n \in DOMAIN @ \ {name[p]} |-> @[n]]]
          ELSE /\ Goto(p, "Meter")
               /\ late' = late
               /\ caches' = caches
  /\ UNCHANGED << lockVars, metricsOnce, counters,
                  sinkVars, samplerVars, tpc, ops, epoch, defined, clean,
                  adds, past >>

\* faulty variant: the gate is kept per sink, so a call whose sink holds no
\* scope yet registers there
GatePerSink(p) ==
  /\ pc[p] = "CompareAndSwap"
  /\ metricsRegistered' = TRUE
  /\ IF metricsRegistered /\ scopes[cfg[p].meterProvider] > 0
     THEN Return(p, NilErr) /\ late' = late \cup {name[p]}
     ELSE Goto(p, "Meter") /\ late' = late
  /\ UNCHANGED << caches, lockVars, metricsOnce, counters,
                  sinkVars, samplerVars, tpc, ops, epoch, defined, clean,
                  adds, past >>

\* Lines 59-61.
Gate(p) ==
  /\ pc[p] = "CompareAndSwap"
  /\ LET r == CompareAndSwap(metricsRegistered, FALSE, TRUE) IN
       /\ metricsRegistered' = r.value
       /\ IF ~r.swapped
          THEN Return(p, NilErr) /\ late' = late \cup {name[p]}
          ELSE Goto(p, "Meter") /\ late' = late
  /\ UNCHANGED << caches, lockVars, metricsOnce, counters,
                  sinkVars, samplerVars, tpc, ops, epoch, defined, clean,
                  adds, past >>

\* faulty variant: the meter is used without the nil check
MeterNoNilCheck(p) ==
  /\ pc[p] = "Meter"
  /\ LET P == cfg[p].meterProvider IN
       /\ scopes[P] < MaxRegs
       /\ scopes' = [scopes EXCEPT ![P] = @ + 1]
       /\ Goto(p, "registerAllMetrics")
  /\ UNCHANGED << caches, lockVars, metricsRegistered, metricsOnce, counters,
                  instruments, callbacks, samplerVars, tpc, ops, epoch, histVars >>

\* faulty variant: a nil meter takes the entry out of the registry and opens
\* the gate again
MeterRollback(p) ==
  /\ pc[p] = "Meter"
  /\ LET P == cfg[p].meterProvider IN
       /\ scopes[P] < MaxRegs
       /\ scopes' = [scopes EXCEPT ![P] = @ + 1]
       /\ IF P \in NilMeterProviders
          THEN /\ Return(p, NilErr)
               /\ caches' = [caches EXCEPT !.m = [n \in DOMAIN @ \ {name[p]} |-> @[n]]]
               /\ metricsRegistered' = FALSE
          ELSE /\ Goto(p, "registerAllMetrics")
               /\ UNCHANGED << caches, metricsRegistered >>
  /\ UNCHANGED << lockVars, metricsOnce, counters,
                  instruments, callbacks, samplerVars, tpc, ops, epoch, histVars >>

\* Lines 63-67.
Meter(p) ==
  /\ pc[p] = "Meter"
  /\ LET P == cfg[p].meterProvider IN
       /\ scopes[P] < MaxRegs
       /\ scopes' = [scopes EXCEPT ![P] = @ + 1]
       /\ IF P \in NilMeterProviders
          THEN Return(p, NilErr)
          ELSE Goto(p, "registerAllMetrics")
  /\ UNCHANGED << caches, lockVars, metricsRegistered, metricsOnce, counters,
                  instruments, callbacks, samplerVars, tpc, ops, epoch, histVars >>

\* Whether a call into sink P may return an error.
MayFail(P) == P \in FaultyProviders

\* The instruments of a sink after the first k Int64ObservableCounter calls
\* of registerAllMetrics succeeded on it.
Created(inst, k) ==
  [i \in MetricNames |->
     IF \E j \in 1..k : Instruments[j] = i THEN inst[i] + 1 ELSE inst[i]]

\* registerAllMetrics, lines 75-109: the six Int64ObservableCounter calls in
\* order; the first one that fails returns its error.
Int64ObservableCounter(p) ==
  /\ pc[p] = "registerAllMetrics"
  /\ LET P == cfg[p].meterProvider IN
       /\ \A i \in MetricNames : instruments[P][i] < MaxRegs /\ defined[i] < MaxRegs
       /\ \/ /\ MayFail(P)
             /\ \E k \in 0..(Len(Instruments) - 1) :
                  /\ instruments' = [instruments EXCEPT ![P] = Created(@, k)]
                  /\ defined' = Created(defined, k)
             /\ Return(p, SinkError)
          \/ /\ instruments' = [instruments EXCEPT ![P] = Created(@, Len(Instruments))]
             /\ defined' = Created(defined, Len(Instruments))
             /\ Goto(p, "RegisterCallback")
  /\ UNCHANGED << caches, lockVars, metricsRegistered, metricsOnce, counters,
                  scopes, callbacks, samplerVars, tpc, ops, epoch, clean, late,
                  adds, past >>

\* faulty variant: a failed RegisterCallback opens the gate again
RegisterCallbackRollback(p) ==
  /\ pc[p] = "RegisterCallback"
  /\ LET P == cfg[p].meterProvider IN
       \/ /\ MayFail(P)
          /\ Return(p, SinkError)
          /\ metricsRegistered' = FALSE
          /\ UNCHANGED callbacks
       \/ /\ callbacks[P] < MaxRegs
          /\ callbacks' = [callbacks EXCEPT ![P] = @ + 1]
          /\ Return(p, NilErr)
          /\ UNCHANGED metricsRegistered
  /\ UNCHANGED << caches, lockVars, metricsOnce, counters,
                  scopes, instruments, samplerVars, tpc, ops, epoch, histVars >>

\* registerAllMetrics, lines 112-130: RegisterCallback and return err.
RegisterCallback(p) ==
  /\ pc[p] = "RegisterCallback"
  /\ LET P == cfg[p].meterProvider IN
       \/ /\ MayFail(P)
          /\ Return(p, SinkError)
          /\ UNCHANGED callbacks
       \/ /\ callbacks[P] < MaxRegs
          /\ callbacks' = [callbacks EXCEPT ![P] = @ + 1]
          /\ Return(p, NilErr)
  /\ UNCHANGED << caches, lockVars, metricsRegistered, metricsOnce, counters,
                  scopes, instruments, samplerVars, tpc, ops, epoch, histVars >>

(***************************************************************************)
(* The callback of lines 113-126, run by the sink that holds it.           *)
(***************************************************************************)
\* faulty variant: the hit and insert instruments observe each other's field
FieldOfSwapped(i) ==
  CASE i = "cache.hit" -> "Inserts"
    [] i = "cache.miss" -> "Misses"
    [] i = "cache.insert" -> "Hits"
    [] i = "cache.eviction" -> "Evictions"
    [] i = "cache.collision" -> "Collisions"
    [] i = "cache.removal" -> "Removals"

FieldOf(i) ==
  CASE i = "cache.hit" -> "Hits"
    [] i = "cache.miss" -> "Misses"
    [] i = "cache.insert" -> "Inserts"
    [] i = "cache.eviction" -> "Evictions"
    [] i = "cache.collision" -> "Collisions"
    [] i = "cache.removal" -> "Removals"

\* o.ObserveInt64(observer, int64(metrics.F), attrs), lines 116-123
ObserveInt64(i, metrics, n) ==
  [inst |-> i, value |-> ToInt64(metrics[FieldOf(i)]), cache_name |-> n]

\* the visitor of lines 114-124 applied to one entry
Observations(n, metrics) ==
  [k \in 1..Len(Instruments) |-> ObserveInt64(Instruments[k], metrics, n)]

\* faulty variant: the loop stops after its first entry
RangeFirst(m) == IF DOMAIN m = {} THEN {} ELSE {CHOOSE n \in DOMAIN m : TRUE}

\* for name, cache := range r.caches: the entries forEach visits
Range(m) == DOMAIN m

\* The sink invokes a registered callback; forEach takes the read lock.
Collect(s, P) ==
  /\ spc[s] = "idle"
  /\ callbacks[P] > 0
  /\ CanRLock
  /\ readers' = readers \cup {s}
  /\ spc' = [spc EXCEPT ![s] = "range"]
  /\ sink' = [sink EXCEPT ![s] = P]
  /\ todo' = [todo EXCEPT ![s] = Range(caches.m)]
  /\ UNCHANGED << caches, writer, metricsRegistered, metricsOnce, counters,
                  callerVars, sinkVars, obs, tpc, ops, epoch, histVars >>

\* faulty variant: the visitor clears the counters it has read
VisitAndClear(s, n) ==
  /\ spc[s] = "range"
  /\ n \in todo[s]
  /\ obs' = [obs EXCEPT ![s] = @ \o Observations(n, counters[caches.m[n]])]
  /\ todo' = [todo EXCEPT ![s] = @ \ {n}]
  /\ counters' = [counters EXCEPT ![caches.m[n]] = Fresh]
  /\ UNCHANGED << caches, lockVars, metricsRegistered, metricsOnce,
                  callerVars, sinkVars, spc, sink, tpc, ops, epoch, histVars >>

\* faulty variant: every metric has a callback of its own, which reads the
\* counters again and observes its own instrument only
VisitOneMetric(s, n) ==
  /\ spc[s] = "range"
  /\ n \in todo[s]
  /\ LET seen == {obs[s][k].inst : k \in {j \in 1..Len(obs[s]) : obs[s][j].cache_name = n}}
         k == CHOOSE j \in 1..Len(Instruments) :
                /\ Instruments[j] \notin seen
                /\ \A l \in 1..(j - 1) : Instruments[l] \in seen
     IN  /\ obs' = [obs EXCEPT ![s] =
                      Append(@, ObserveInt64(Instruments[k], counters[caches.m[n]], n))]
         /\ todo' = [todo EXCEPT ![s] = IF k = Len(Instruments) THEN @ \ {n} ELSE @]
  /\ UNCHANGED << caches, lockVars, metricsRegistered, metricsOnce, counters,
                  callerVars, sinkVars, spc, sink, tpc, ops, epoch, histVars >>

\* forEach: fn(name, cache) for one more entry of the map, in any order.
Visit(s, n) ==
  /\ spc[s] = "range"
  /\ n \in todo[s]
  /\ obs' = [obs EXCEPT ![s] = @ \o Observations(n, counters[caches.m[n]])]
  /\ todo' = [todo EXCEPT ![s] = @ \ {n}]
  /\ UNCHANGED << caches, lockVars, metricsRegistered, metricsOnce, counters,
                  callerVars, sinkVars, spc, sink, tpc, ops, epoch, histVars >>

\* faulty variant: forEach returns without releasing the read lock
RUnlockMissing(s) ==
  /\ spc[s] = "range"
  /\ todo[s] = {}
  /\ spc' = [spc EXCEPT ![s] = "idle"]
  /\ sink' = [sink EXCEPT ![s] = None]
  /\ obs' = [obs EXCEPT ![s] = << >>]
  /\ UNCHANGED << caches, lockVars, metricsRegistered, metricsOnce, counters,
                  callerVars, sinkVars, todo, tpc, ops, epoch, histVars >>

\* forEach: the deferred RUnlock; the callback returns nil and the sink takes
\* the observations away.
RUnlock(s) ==
  /\ spc[s] = "range"
  /\ todo[s] = {}
  /\ readers' = readers \ {s}
  /\ spc' = [spc EXCEPT ![s] = "idle"]
  /\ sink' = [sink EXCEPT ![s] = None]
  /\ obs' = [obs EXCEPT ![s] = << >>]
  /\ UNCHANGED << caches, writer, metricsRegistered, metricsOnce, counters,
                  callerVars, sinkVars, todo, tpc, ops, epoch, histVars >>

(***************************************************************************)
(* resetForTesting: registry.reset() and metricsOnce = sync.Once{}.        *)
(* metricsRegistered is not assigned.  The tests call it first thing,      *)
(* while no goroutine is inside InstrumentCache; the sink may be sampling. *)
(***************************************************************************)
ResetLock ==
  /\ tpc = "idle"
  /\ epoch < MaxResets
  /\ \A p \in Callers : pc[p] = "idle"
  /\ CanLock
  /\ writer' = Tester
  /\ tpc' = "reset"
  /\ UNCHANGED << caches, readers, metricsRegistered, metricsOnce, counters,
                  callerVars, sinkVars, samplerVars, ops, epoch, histVars >>

ResetForTesting ==
  /\ tpc = "reset"
  /\ writer = Tester
  /\ caches' = reset(caches)
  /\ writer' = None
  /\ metricsOnce' = FALSE
  /\ tpc' = "idle"
  /\ epoch' = epoch + 1
  /\ defined' = [i \in MetricNames |-> 0]
  /\ clean' = TRUE
  /\ late' = {}
  /\ adds' = 0
  /\ UNCHANGED << readers, metricsRegistered, counters,
                  callerVars, sinkVars, samplerVars, ops, past >>

(***************************************************************************)
(* The owner of a cache uses it as the tests do: Add counts an insert, Get *)
(* a hit or a miss.  Only the visitor reads the counters, so an operation  *)
(* done while no sample runs shows exactly as one done at the start of the *)
(* next sample; the model places every operation inside a sample.          *)
(***************************************************************************)
UsedFields == {"Inserts", "Hits", "Misses"}

CacheOp(c, f) ==
  /\ ops < MaxOps
  /\ \E s \in Samplers : spc[s] = "range"
  /\ ops' = ops + 1
  /\ counters' = [counters EXCEPT ![c][f] = Inc64(@)]
  /\ UNCHANGED << caches, lockVars, metricsRegistered, metricsOnce,
                  callerVars, sinkVars, samplerVars, tpc, epoch, histVars >>

Next ==
  \/ \E p \in Callers, n \in Names, c \in Configs : InstrumentCache(p, n, c)
  \/ \E p \in Callers : Add(p)
  \/ \E p \in Callers : Gate(p)
  \/ \E p \in Callers : Meter(p)
  \/ \E p \in Callers : Int64ObservableCounter(p)
  \/ \E p \in Callers : RegisterCallback(p)
  \/ \E s \in Samplers, P \in Providers : Collect(s, P)
  \/ \E s \in Samplers, n \in Names : Visit(s, n)
  \/ \E s \in Samplers : RUnlock(s)
  \/ ResetLock
  \/ ResetForTesting
  \/ \E c \in Handles, f \in UsedFields : CacheOp(c, f)

Spec == Init /\ [][Next]_vars

(***************************************************************************)
(* Vocabulary of the properties.                                           *)
(***************************************************************************)
\* data points the sample of s holds for instrument i and cache name n
Points(s, i, n) ==
  Cardinality({k \in 1..Len(obs[s]) :
                 obs[s][k].inst = i /\ obs[s][k].cache_name = n})

\* the callback run by s has visited every entry and is about to return
SampleDone(s) == spc[s] = "range" /\ todo[s] = {}

Registered == DOMAIN caches.m

\* caller p takes the step that ends registry.add
AddStep(p) == pc[p] = "add" /\ pc'[p] # "add"
\* caller p takes the compare-and-swap step
GateStep(p) == pc[p] = "CompareAndSwap" /\ pc'[p] # "CompareAndSwap"
\* caller p returns from InstrumentCache
ReturnStep(p) == pc[p] # "idle" /\ pc'[p] = "idle"
\* sampler s visits the entry of name n
VisitStep(s, n) == spc[s] = "range" /\ n \in todo[s] /\ todo'[s] = todo[s] \ {n}

RegistrationPath == {"Meter", "registerAllMetrics", "RegisterCallback"}

C2_DuplicateRejected ==
  [][ /\ \A p \in Callers :
           AddStep(p) /\ name[p] \in Registered =>
             /\ ret' = "cache with name '" \o name[p] \o "' already exists"
             /\ pc'[p] = "idle"
             /\ caches' = caches
      /\ \A n \in Registered :
           n \in DOMAIN caches'.m => caches'.m[n] = caches.m[n]
      /\ \A s \in Samplers, n \in Names :
           VisitStep(s, n) =>
             \A k \in (Len(obs[s]) + 1)..Len(obs'[s]) :
               /\ obs'[s][k].cache_name = n
               /\ \E f \in Fields :
                    obs'[s][k].value = ToInt64(counters[caches.m[n]][f])
    ]_vars

C2_Witness ==
  /\ ret = "cache with name 'a' already exists"
  /\ "a" \in Registered
  /\ caches.m["a"] = "c1"
  /\ \E s \in Samplers :
       /\ SampleDone(s)
       /\ Points(s, "cache.insert", "a") = 1
       /\ \E k \in 1..Len(obs[s]) :
            /\ obs[s][k].inst = "cache.insert"
            /\ obs[s][k].cache_name = "a"
            /\ obs[s][k].value = [neg |-> FALSE, mag |-> <<0, 0, 0, 2>>]

(***************************************************************************)
(* C3.  Within one epoch the six definitions are created exactly once:     *)
(* when no call is in flight, at least one call of the epoch has           *)
(* registered its cache and every call of the epoch resolved a working     *)
(* sink, each of the six instruments has been created once since the last  *)
(* reset.                                                                  *)
(***************************************************************************)
C3_DefinedOncePerEpoch ==
  ( /\ \A p \in Callers : pc[p] = "idle"
    /\ Registered # {}
    /\ clean )
  => \A i \in MetricNames : defined[i] = 1

C5_ResetReopensGate ==
  [][ /\ (tpc = "reset" /\ tpc' = "idle") => caches'.m = Empty
      /\ \A p \in Callers :
           GateStep(p) /\ Registered = {name[p]} => pc'[p] = "Meter"
    ]_vars

(***************************************************************************)
(* Arithmetic used to state the values of a sample.                        *)
(***************************************************************************)
\* a + b modulo 2^64
Add64(a, b) ==
  LET s4 == a[4] + b[4]
      s3 == a[3] + b[3] + (s4 \div Limb)
      s2 == a[2] + b[2] + (s3 \div Limb)
      s1 == a[1] + b[1] + (s2 \div Limb)
  IN  <<s1 % Limb, s2 % Limb, s3 % Limb, s4 % Limb>>

\* v is the signed 64-bit value with the bits of the unsigned counter u:
\* u itself below 2^63, and u - 2^64 (that is -mag with mag + u = 2^64) from
\* 2^63 on
IsInt64Of(v, u) ==
  IF u[1] < HalfLimb
  THEN v = [neg |-> FALSE, mag |-> u]
  ELSE v.neg /\ v.mag # Zero64 /\ Add64(v.mag, u) = Zero64

\* the observations a step of sampler s appends
Appended(s) == SubSeq(obs'[s], Len(obs[s]) + 1, Len(obs'[s]))

\* the values the observations new hold for instrument i
ValuesOf(new, i) == {new[k].value : k \in {j \in 1..Len(new) : new[j].inst = i}}

\* the number of observations new hold for instrument i
CountOf(new, i) == Cardinality({k \in 1..Len(new) : new[k].inst = i})

(***************************************************************************)
(* C6 as the spec states it.  Every value a sample reports for a name and  *)
(* a metric equals the corresponding counter of the name's handle as read  *)
(* when the sample visits the entry.                                       *)
(***************************************************************************)
C6_ReportsCounter ==
  [][ \A s \in Samplers, n \in Names :
        VisitStep(s, n) =>
          LET m == counters[caches.m[n]]
              new == Appended(s)
              Is(i, u) ==
                /\ CountOf(new, i) = 1
                /\ ValuesOf(new, i) = {[neg |-> FALSE, mag |-> u]}
          IN  /\ Is("cache.hit", m["Hits"])
              /\ Is("cache.miss", m["Misses"])
              /\ Is("cache.insert", m["Inserts"])
              /\ Is("cache.eviction", m["Evictions"])
              /\ Is("cache.collision", m["Collisions"])
              /\ Is("cache.removal", m["Removals"])
    ]_vars

(***************************************************************************)
(* C6.  Every value a sample reports for a name and a metric is the        *)
(* corresponding counter of the name's handle, as read when the sample     *)
(* visits the entry, converted to a signed 64-bit value: the counter       *)
(* itself while it is below 2^63, the counter minus 2^64 from 2^63 on.     *)
(* The six values of an entry carry the entry's name.                      *)
(***************************************************************************)
C6_ReportsConvertedCounter ==
  [][ \A s \in Samplers, n \in Names :
        VisitStep(s, n) =>
          LET m == counters[caches.m[n]]
              new == Appended(s)
              Is(i, u) ==
                /\ CountOf(new, i) = 1
                /\ \A v \in ValuesOf(new, i) : IsInt64Of(v, u)
          IN  /\ Len(new) = 6
              /\ \A k \in 1..Len(new) : new[k].cache_name = n
              /\ Is("cache.hit", m["Hits"])
              /\ Is("cache.miss", m["Misses"])
              /\ Is("cache.insert", m["Inserts"])
              /\ Is("cache.eviction", m["Evictions"])
              /\ Is("cache.collision", m["Collisions"])
              /\ Is("cache.removal", m["Removals"])
    ]_vars

\* A sample reports the cache with 2 inserts, 1 hit and 1 miss as
\* insert=2, hit=1, miss=1 and 0 for the rest, and the cache whose insert
\* counter has reached 2^63 as insert = -2^63.
C6_Witness ==
  \E s \in Samplers :
    /\ SampleDone(s)
    /\ Registered = {"a", "b"}
    /\ caches.m["a"] = "c1" /\ caches.m["b"] = "c2"
    /\ counters["c1"] = Used
    /\ counters["c2"]["Inserts"] = <<HalfLimb, 0, 0, 0>>
    /\ LET of(n) == SelectSeq(obs[s], LAMBDA o : o.cache_name = n) IN
         /\ ValuesOf(of("a"), "cache.insert") = {[neg |-> FALSE, mag |-> <<0, 0, 0, 2>>]}
         /\ ValuesOf(of("a"), "cache.hit") = {[neg |-> FALSE, mag |-> <<0, 0, 0, 1>>]}
         /\ ValuesOf(of("a"), "cache.miss") = {[neg |-> FALSE, mag |-> <<0, 0, 0, 1>>]}
         /\ ValuesOf(of("a"), "cache.eviction") = {[neg |-> FALSE, mag |-> Zero64]}
         /\ ValuesOf(of("a"), "cache.collision") = {[neg |-> FALSE, mag |-> Zero64]}
         /\ ValuesOf(of("a"), "cache.removal") = {[neg |-> FALSE, mag |-> Zero64]}
         /\ ValuesOf(of("b"), "cache.insert") = {[neg |-> TRUE, mag |-> <<HalfLimb, 0, 0, 0>>]}

(***************************************************************************)
(* C7.  When registry.add fails, the call returns that error at once and   *)
(* does nothing else: the gate flag keeps its value, no scope is requested *)
(* from any sink, and no instrument and no callback is registered.         *)
(***************************************************************************)
C7_FailedAddStops ==
  [][ \A p \in Callers :
        AddStep(p) /\ add(caches, CacheOf(p), name[p]).err # NilErr =>
          /\ pc'[p] = "idle"
          /\ ret' = add(caches, CacheOf(p), name[p]).err
          /\ ret' # NilErr
          /\ metricsRegistered' = metricsRegistered
          /\ scopes' = scopes
          /\ instruments' = instruments
          /\ callbacks' = callbacks
    ]_vars

\* The very first failure of a run: a duplicate name was rejected while the
\* gate is still open and no sink has been asked for anything.
C7_Witness ==
  /\ ret = Errorf("a")
  /\ \A p \in Callers : pc[p] \in {"idle", "CompareAndSwap"}
  /\ metricsRegistered = FALSE
  /\ \A P \in Providers :
       /\ scopes[P] = 0
       /\ callbacks[P] = 0
       /\ \A i \in MetricNames : instruments[P][i] = 0

(***************************************************************************)
(* C8.  When the call that won the gate gets a nil meter from its sink, it *)
(* returns nil, creates no instrument and registers no callback, and its   *)
(* cache stays in the registry; a sink that hands out nil meters never     *)
(* holds an instrument or a callback.                                      *)
(***************************************************************************)
C8_NilMeterIsNoOp ==
  /\ [][ \A p \in Callers :
           ( /\ pc[p] = "Meter"
             /\ pc'[p] # "Meter"
             /\ cfg[p].meterProvider \in NilMeterProviders ) =>
             /\ pc'[p] = "idle"
             /\ ret' = NilErr
             /\ instruments' = instruments
             /\ callbacks' = callbacks
             /\ caches' = caches
             /\ name[p] \in DOMAIN caches'.m
             /\ caches'.m[name[p]] = CacheOf(p)
       ]_vars
  /\ [](\A P \in NilMeterProviders :
          /\ callbacks[P] = 0
          /\ \A i \in MetricNames : instruments[P][i] = 0)

\* The first call of the first epoch has returned nil from a sink without a
\* meter: its cache is registered and nothing has been registered anywhere.
C8_Witness ==
  /\ epoch = 0
  /\ ret = NilErr
  /\ metricsRegistered
  /\ \A p \in Callers : pc[p] = "idle"
  /\ Cardinality(Registered) = 1
  /\ \A P \in Providers :
       /\ scopes[P] = (IF P \in NilMeterProviders THEN 1 ELSE 0)
       /\ callbacks[P] = 0
       /\ \A i \in MetricNames : instruments[P][i] = 0

(***************************************************************************)
(* C9.  An error of the sink, from Int64ObservableCounter or from          *)
(* RegisterCallback, is returned as it is by the call that won the gate    *)
(* and by no other call: only a call on the registration path returns it,  *)
(* a call enters that path only by swapping the flag from false to true,   *)
(* the flag stays true for the rest of the epoch, and a call that finds it *)
(* true returns nil without reaching the path.                             *)
(***************************************************************************)
C9_SinkErrorToGateWinnerOnly ==
  [][ /\ \A p \in Callers :
           /\ ( /\ ReturnStep(p)
                /\ \/ pc[p] = "registerAllMetrics"
                   \/ pc[p] = "RegisterCallback" /\ callbacks' = callbacks )
              => ret' = SinkError
           /\ ReturnStep(p) /\ ret' = SinkError =>
                pc[p] \in {"registerAllMetrics", "RegisterCallback"}
           /\ pc[p] \notin RegistrationPath /\ pc'[p] \in RegistrationPath =>
                /\ pc[p] = "CompareAndSwap"
                /\ ~metricsRegistered
                /\ metricsRegistered'
                /\ \A q \in Callers : pc[q] \notin RegistrationPath
           /\ GateStep(p) /\ metricsRegistered =>
                pc'[p] = "idle" /\ ret' = NilErr /\ sinkVars' = sinkVars
      /\ metricsRegistered /\ epoch' = epoch => metricsRegistered'
    ]_vars

\* The gate winner has returned the sink's error and a later call of the
\* same epoch stands before the gate, which is closed.
C9_Witness ==
  /\ epoch = 0
  /\ ret = SinkError
  /\ metricsRegistered
  /\ \E q \in Callers : pc[q] = "CompareAndSwap"
  /\ \A P \in Providers : callbacks[P] = 0

(***************************************************************************)
(* C10.  A call that finds the gate closed returns nil and has not touched *)
(* any sink from its start to its return; once it has returned, every      *)
(* sample reports, for each of the six metrics, one data point under the   *)
(* call's name.                                                            *)
(***************************************************************************)
C10_LateCallPickedUp ==
  /\ [][ \A p \in Callers :
           /\ pc[p] \in {"idle", "add", "CompareAndSwap"} /\ pc'[p] # pc[p] =>
                sinkVars' = sinkVars
           /\ GateStep(p) /\ ~CompareAndSwap(metricsRegistered, FALSE, TRUE).swapped =>
                /\ pc'[p] = "idle"
                /\ ret' = NilErr
                /\ name[p] \in DOMAIN caches'.m
       ]_vars
  /\ [](\A s \in Samplers :
          SampleDone(s) =>
            \A n \in late :
              /\ n \in Registered
              /\ \A i \in MetricNames : Points(s, i, n) = 1)

\* A call lost the gate and returned; a sample taken afterwards holds the
\* six data points of its cache.
C10_Witness ==
  /\ \A p \in Callers : pc[p] = "idle"
  /\ ret = NilErr
  /\ late = {"b"}
  /\ \E s \in Samplers :
       /\ SampleDone(s)
       /\ \A i \in MetricNames : Points(s, i, "b") = 1

(***************************************************************************)
(* Lines 44-51 of InstrumentCache on their own: a call is given a list of  *)
(* options and resolves its config from it.  The list is kept next to the  *)
(* resolved config until the caller drops both.                            *)
(***************************************************************************)
Configure(p, o) ==
  /\ pc[p] = "idle"
  /\ pc' = [pc EXCEPT ![p] = "configured"]
  /\ given' = [given EXCEPT ![p] = o]
  /\ cfg' = [cfg EXCEPT ![p] = ResolveConfig(o)]
  /\ UNCHANGED << caches, lockVars, metricsRegistered, metricsOnce, counters,
                  name, ret, sinkVars, samplerVars, tpc, ops, epoch, histVars >>

Forget(p) ==
  /\ pc[p] = "configured"
  /\ Return(p, ret)
  /\ UNCHANGED << caches, lockVars, metricsRegistered, metricsOnce, counters,
                  sinkVars, samplerVars, tpc, ops, epoch, histVars >>

OptNext ==
  \/ \E p \in Callers, o \in OptionLists : Configure(p, o)
  \/ \E p \in Callers : Forget(p)

OptSpec == Init /\ [][OptNext]_vars

(***************************************************************************)
(* C11.  The sink a call resolves is the process-wide default sink when no *)
(* option is given, and otherwise the sink of the last WithMeterProvider   *)
(* option of the list, whatever the options before it say.                 *)
(***************************************************************************)
C11_LastOptionWins ==
  \A p \in Callers :
    pc[p] = "configured" =>
      IF given[p] = << >>
      THEN cfg[p].meterProvider = GetMeterProvider
      ELSE given[p][Len(given[p])] = WithMeterProvider(cfg[p].meterProvider)

\* One call without options has resolved the default sink, and a call with
\* two different options has resolved the sink of the second.
C11_Witness ==
  /\ pc["g1"] = "configured"
  /\ given["g1"] = << >>
  /\ cfg["g1"].meterProvider = "global"
  /\ pc["g2"] = "configured"
  /\ given["g2"] = << WithMeterProvider("custom"), WithMeterProvider("nometer") >>
  /\ cfg["g2"].meterProvider = "nometer"

(***************************************************************************)
(* C12.  The gate flag is one-shot: it is set only by the compare-and-swap *)
(* of a call that goes on to request the meter, and once it is set no step *)
(* of any InstrumentCache call (a failed add and a sink error included)    *)
(* and no step of a sample clears it; a step that clears it can only be    *)
(* the reset.                                                              *)
(***************************************************************************)
C12_GateIsOneShot ==
  [][ /\ ( ~metricsRegistered /\ metricsRegistered' ) =>
           \E p \in Callers : GateStep(p) /\ pc'[p] = "Meter"
      /\ ( metricsRegistered /\ ~metricsRegistered' ) =>
           ( tpc = "reset" /\ tpc' = "idle" )
      /\ ( metricsRegistered /\ tpc' = tpc ) => metricsRegistered'
    ]_vars

\* With the flag set, the winner has returned the sink's error and a call
\* with a name that is already registered is inside registry.add.
C12_Witness ==
  /\ metricsRegistered
  /\ epoch = 0
  /\ ret = SinkError
  /\ \E p \in Callers : pc[p] = "add" /\ name[p] \in Registered

(***************************************************************************)
(* C13.  Under every interleaving at most one call of an epoch wins the    *)
(* compare-and-swap and runs registerAllMetrics: never are two calls on    *)
(* the registration path, each of the six instruments is created at most   *)
(* once since the last reset, and at most one scope is requested and one   *)
(* callback registered, on one sink.                                       *)
(***************************************************************************)
C13_AtMostOneRegistration ==
  /\ Cardinality({p \in Callers : pc[p] \in RegistrationPath}) <= 1
  /\ \A i \in MetricNames :
       /\ defined[i] <= 1
       /\ \A P \in Providers : instruments[P][i] <= 1
       /\ Cardinality({P \in Providers : instruments[P][i] > 0}) <= 1
  /\ \A P \in Providers : callbacks[P] <= 1 /\ scopes[P] <= 1
  /\ Cardinality({P \in Providers : callbacks[P] > 0}) <= 1
  /\ Cardinality({P \in Providers : scopes[P] > 0}) <= 1
  /\ ( \/ \E p \in Callers : pc[p] \in RegistrationPath
       \/ \E P \in Providers : scopes[P] > 0 ) => metricsRegistered

\* Two concurrent calls have both registered their caches and returned; the
\* six instruments and the callback exist once.
C13_Witness ==
  /\ epoch = 0
  /\ adds = 2
  /\ \A p \in Callers : pc[p] = "idle"
  /\ late # {}
  /\ \A i \in MetricNames : defined[i] = 1
  /\ \E P \in Providers : callbacks[P] = 1

(***************************************************************************)
(* C14.  A call that loses the compare-and-swap does not wait for the      *)
(* winner: the compare-and-swap step can always be taken, and when it      *)
(* finds the flag set the call returns nil in that step, also while the    *)
(* winner is still on the registration path.                               *)
(***************************************************************************)
C14_LoserDoesNotWait ==
  /\ [](\A p \in Callers : pc[p] = "CompareAndSwap" => ENABLED Gate(p))
  /\ [][ \A p \in Callers :
           GateStep(p) /\ metricsRegistered =>
             /\ pc'[p] = "idle"
             /\ ret' = NilErr
             /\ \A q \in Callers \ {p} : pc'[q] = pc[q]
       ]_vars

\* A call has returned nil while the winner has not yet created any
\* instrument nor registered the callback.
C14_Witness ==
  /\ epoch = 0
  /\ ret = NilErr
  /\ late # {}
  /\ \E q \in Callers : pc[q] \in RegistrationPath
  /\ \A P \in Providers :
       /\ callbacks[P] = 0
       /\ \A i \in MetricNames : instruments[P][i] = 0

(***************************************************************************)
(* C17.  Registry entries are created only by a successful add and never   *)
(* updated: the registry holds as many entries as adds have succeeded      *)
(* since the last reset, a step that changes the map is either a           *)
(* successful add, which inserts exactly the caller's new name, or the     *)
(* reset, and short of a reset a name keeps the handle it maps to.         *)
(***************************************************************************)
C17_EntriesCreatedOnce ==
  /\ [](Cardinality(Registered) = adds)
  /\ [][ /\ caches'.m # caches.m =>
              \/ tpc = "reset" /\ tpc' = "idle"
              \/ \E p \in Callers :
                   /\ AddStep(p)
                   /\ pc'[p] = "CompareAndSwap"
                   /\ name[p] \notin Registered
                   /\ DOMAIN caches'.m = Registered \cup {name[p]}
                   /\ caches'.m[name[p]] = CacheOf(p)
         /\ tpc' = tpc =>
              \A n \in Registered :
                n \in DOMAIN caches'.m /\ caches'.m[n] = caches.m[n]
       ]_vars

\* Two adds have succeeded, a third one has been rejected, and both names
\* map to the handle their first call brought.
C17_Witness ==
  /\ adds = 2
  /\ Registered = {"a", "b"}
  /\ caches.m["a"] = "c1"
  /\ caches.m["b"] = "c2"
  /\ ret = Errorf("a")
  /\ \A p \in Callers : pc[p] = "idle"

(***************************************************************************)
(* C18.  Sampling is read-only: no step of a forEach or of the callback    *)
(* (taking the read lock, visiting an entry, releasing the lock) changes   *)
(* the registry, the gate flag or the counters of any handle.              *)
(***************************************************************************)
C18_SamplingReadOnly ==
  [][ \A s \in Samplers :
        ( spc'[s] # spc[s] \/ todo'[s] # todo[s] \/ obs'[s] # obs[s] ) =>
          /\ caches' = caches
          /\ metricsRegistered' = metricsRegistered
          /\ counters' = counters
    ]_vars

\* A sample has visited both entries and the counters of both caches still
\* stand where their owners left them.
C18_Witness ==
  /\ ops = 0
  /\ metricsRegistered
  /\ counters["c1"] = Used
  /\ counters["c2"] = Old
  /\ \E s \in Samplers :
       /\ SampleDone(s)
       /\ Registered = {"a", "b"}
       /\ Len(obs[s]) = 2 * Len(Instruments)

(***************************************************************************)
(* C20.  One callback covers all six instruments: a sink holds at most one *)
(* callback, and only together with the six instruments.  Within a sample  *)
(* the callback reads the counters of an entry once and observes the six   *)
(* metrics from that one read: the six observations of an entry are made   *)
(* in one step from one value of the counters, and a sample grows by       *)
(* nothing but such groups of six, so at every moment of a sample each     *)
(* name has been reported for all six metrics or for none.                 *)
(***************************************************************************)
C20_OneCallbackOneRead ==
  [][ /\ callbacks' # callbacks =>
           \A P \in Providers :
             callbacks'[P] # callbacks[P] =>
               /\ callbacks[P] = 0
               /\ callbacks'[P] = 1
               /\ \A i \in MetricNames : instruments[P][i] = 1
      /\ todo' # todo =>
           \A s \in Samplers, n \in Names :
             VisitStep(s, n) => Len(obs'[s]) = Len(obs[s]) + Len(Instruments)
      /\ obs' # obs =>
           \A s \in Samplers :
             ( obs'[s] # obs[s] /\ obs'[s] # << >> ) =>
               /\ Len(obs'[s]) = Len(obs[s]) + Len(Instruments)
               /\ \E n \in todo[s] :
                    /\ todo'[s] = todo[s] \ {n}
                    /\ \A k \in 1..Len(Instruments) :
                         LET o == obs'[s][Len(obs[s]) + k] IN
                           /\ o.inst = Instruments[k]
                           /\ o.cache_name = n
                           /\ o.value = ToInt64(counters[caches.m[n]][FieldOf(o.inst)])
    ]_vars

\* The one callback of the sink has reported two caches, one of them used
\* by its owner while the sample ran, and each of the six metrics holds the
\* same two names.
C20_Witness ==
  /\ ops = 1
  /\ \E s \in Samplers :
       /\ SampleDone(s)
       /\ sink[s] \in Providers
       /\ callbacks[sink[s]] = 1
       /\ \A i \in MetricNames :
            {obs[s][k].cache_name : k \in {j \in 1..Len(obs[s]) : obs[s][j].inst = i}}
              = {"a", "b"}

(***************************************************************************)
(* The registry with the waiting of sync.RWMutex spelled out.  Lock first  *)
(* takes the writer slot, from which moment RLock calls wait, and returns  *)
(* when the readers that hold the lock have left; RLock returns when no    *)
(* writer holds or awaits the lock.  A goroutine blocked in Lock or RLock  *)
(* stands at "Lock" or "RLock".  Calls use the default sink; reset may     *)
(* come at any moment.                                                     *)
(***************************************************************************)
\* Lines 44-54: the call enters registry.add, which calls r.Lock().
Call(p, n) ==
  /\ pc[p] = "idle"
  /\ pc' = [pc EXCEPT ![p] = "Lock"]
  /\ name' = [name EXCEPT ![p] = n]
  /\ UNCHANGED << caches, lockVars, metricsRegistered, metricsOnce, counters,
                  cfg, ret, given, sinkVars, samplerVars, tpc, ops, epoch, histVars >>

\* r.Lock() of add: the writer slot is free and p takes it.
AddLock(p) ==
  /\ pc[p] = "Lock"
  /\ writer = None
  /\ writer' = p
  /\ pc' = [pc EXCEPT ![p] = "drain"]
  /\ UNCHANGED << caches, readers, metricsRegistered, metricsOnce, counters,
                  name, cfg, ret, given, sinkVars, samplerVars, tpc, ops, epoch,
                  histVars >>

\* faulty variant: r.Lock() of add returns while readers are still inside
AddLockedEarly(p) ==
  /\ pc[p] = "drain"
  /\ writer = p
  /\ pc' = [pc EXCEPT ![p] = "add"]
  /\ UNCHANGED << caches, lockVars, metricsRegistered, metricsOnce, counters,
                  name, cfg, ret, given, sinkVars, samplerVars, tpc, ops, epoch,
                  histVars >>

\* r.Lock() of add returns: the last reader has left.
AddLocked(p) ==
  /\ pc[p] = "drain"
  /\ writer = p
  /\ readers = {}
  /\ pc' = [pc EXCEPT ![p] = "add"]
  /\ UNCHANGED << caches, lockVars, metricsRegistered, metricsOnce, counters,
                  name, cfg, ret, given, sinkVars, samplerVars, tpc, ops, epoch,
                  histVars >>

\* The sink invokes a registered callback; forEach calls r.RLock().
Callback(s, P) ==
  /\ spc[s] = "idle"
  /\ callbacks[P] > 0
  /\ spc' = [spc EXCEPT ![s] = "RLock"]
  /\ sink' = [sink EXCEPT ![s] = P]
  /\ UNCHANGED << caches, lockVars, metricsRegistered, metricsOnce, counters,
                  callerVars, sinkVars, todo, obs, tpc, ops, epoch, histVars >>

\* r.RLock() returns and the range loop starts.
ForEachRLock(s) ==
  /\ spc[s] = "RLock"
  /\ CanRLock
  /\ readers' = readers \cup {s}
  /\ spc' = [spc EXCEPT ![s] = "range"]
  /\ todo' = [todo EXCEPT ![s] = Range(caches.m)]
  /\ UNCHANGED << caches, writer, metricsRegistered, metricsOnce, counters,
                  callerVars, sinkVars, sink, obs, tpc, ops, epoch, histVars >>

\* resetForTesting calls registry.reset(), which calls r.Lock().
ResetCall ==
  /\ tpc = "idle"
  /\ epoch < MaxResets
  /\ tpc' = "Lock"
  /\ UNCHANGED << caches, lockVars, metricsRegistered, metricsOnce, counters,
                  callerVars, sinkVars, samplerVars, ops, epoch, histVars >>

\* r.Lock() of reset: the writer slot is free and the tester takes it.
ResetTakesLock ==
  /\ tpc = "Lock"
  /\ writer = None
  /\ writer' = Tester
  /\ tpc' = "drain"
  /\ UNCHANGED << caches, readers, metricsRegistered, metricsOnce, counters,
                  callerVars, sinkVars, samplerVars, ops, epoch, histVars >>

\* r.Lock() of reset returns: the last reader has left.
ResetLocked ==
  /\ tpc = "drain"
  /\ writer = Tester
  /\ readers = {}
  /\ tpc' = "reset"
  /\ UNCHANGED << caches, lockVars, metricsRegistered, metricsOnce, counters,
                  callerVars, sinkVars, samplerVars, ops, epoch, histVars >>

\* registry.reset() under the lock, its Unlock, and line 50 of
\* resetForTesting; the names the map held are remembered.
ResetUnlock ==
  /\ tpc = "reset"
  /\ writer = Tester
  /\ caches' = reset(caches)
  /\ writer' = None
  /\ metricsOnce' = FALSE
  /\ tpc' = "idle"
  /\ epoch' = epoch + 1
  /\ defined' = [i \in MetricNames |-> 0]
  /\ clean' = TRUE
  /\ late' = {}
  /\ adds' = 0
  /\ past' = past \cup DOMAIN caches.m
  /\ UNCHANGED << readers, metricsRegistered, counters,
                  callerVars, sinkVars, samplerVars, ops >>

\* the steps of operations that have started, for callers C and readers R
RegistryProgress(C, R) ==
  \/ \E p \in C : AddLock(p)
  \/ \E p \in C : AddLocked(p)
  \/ \E p \in C : Add(p)
  \/ \E p \in C : Gate(p)
  \/ \E p \in C : Meter(p)
  \/ \E p \in C : Int64ObservableCounter(p)
  \/ \E p \in C : RegisterCallback(p)
  \/ \E s \in R : ForEachRLock(s)
  \/ \E s \in R, n \in Names : Visit(s, n)
  \/ \E s \in R : RUnlock(s)
  \/ ResetTakesLock
  \/ ResetLocked
  \/ ResetUnlock

\* callers C register names of N, the sink samples on the goroutines R
RegistryNextOf(C, R, N) ==
  \/ \E p \in C, n \in N : Call(p, n)
  \/ \E s \in R, P \in Providers : Callback(s, P)
  \/ ResetCall
  \/ RegistryProgress(C, R)

RegistryNext == RegistryNextOf(Callers, Readers, Names)

RegistrySpec == Init /\ [][RegistryNext]_vars

(***************************************************************************)
(* Scheduling.  The Go scheduler runs every runnable goroutine again, so a *)
(* step that stays possible is taken (weak fairness).  A goroutine blocked *)
(* in Lock or RLock is woken by the mutex itself: sync.Mutex hands the     *)
(* lock to a waiter that has waited long (starvation mode) and Unlock      *)
(* admits the readers that wait, so a waiter that could proceed again and  *)
(* again does proceed (strong fairness).  The fair system has two callers  *)
(* that register the same name and one sampling goroutine.                 *)
(***************************************************************************)
FairNames == {"a"}

RegistryFairness ==
  /\ \A p \in Callers :
       /\ SF_vars(AddLock(p))
       /\ WF_vars(AddLocked(p))
       /\ WF_vars(Add(p))
       /\ WF_vars(Gate(p))
       /\ WF_vars(Meter(p))
       /\ WF_vars(Int64ObservableCounter(p))
       /\ WF_vars(RegisterCallback(p))
  /\ \A s \in Samplers :
       /\ SF_vars(ForEachRLock(s))
       /\ WF_vars(\E n \in Names : Visit(s, n))
       /\ WF_vars(RUnlock(s))
  /\ SF_vars(ResetTakesLock)
  /\ WF_vars(ResetLocked)
  /\ WF_vars(ResetUnlock)

FairNext == RegistryNextOf(Callers, Samplers, FairNames)

FairSpec == Init /\ [][FairNext]_vars /\ RegistryFairness

\* some operation on the registry has started and not returned
InFlight ==
  \/ \E p \in Callers : pc[p] # "idle"
  \/ \E s \in Readers : spc[s] # "idle"
  \/ tpc # "idle"

\* goroutines inside the exclusive section of add or reset
Writing ==
  {p \in Callers : pc[p] = "add"} \cup (IF tpc = "reset" THEN {Tester} ELSE {})

\* goroutines iterating inside forEach
Iterating == {s \in Readers : spc[s] = "range"}

(***************************************************************************)
(* C15.  Reader/writer exclusion: never is an add or a reset inside its    *)
(* exclusive section while a forEach iterates or while another add or      *)
(* reset is inside its own; iterations may overlap.                        *)
(***************************************************************************)
C15_ReadersWritersExclude ==
  /\ Cardinality(Writing) <= 1
  /\ Writing # {} => Iterating = {}
  /\ Writing # {} => Writing = {writer}
  /\ Iterating = readers

\* Two iterations hold the read lock at the same time while an add waits
\* for them to leave.
C15_Witness ==
  /\ Iterating = Readers
  /\ Writing = {}
  /\ \E p \in Callers : pc[p] = "drain" /\ writer = p

(***************************************************************************)
(* C16.  Registry operations complete: under fair scheduling every         *)
(* InstrumentCache call (and the add inside it), every sample (and the     *)
(* forEach inside it) and every reset that has started returns, and in no  *)
(* state with an operation under way are all of them stuck.                *)
(***************************************************************************)
C16_OperationsComplete ==
  /\ \A p \in Callers : (pc[p] # "idle") ~> (pc[p] = "idle")
  /\ \A s \in Samplers : (spc[s] # "idle") ~> (spc[s] = "idle")
  /\ (tpc # "idle") ~> (tpc = "idle")
  /\ [](InFlight => ENABLED RegistryProgress(Callers, Samplers))

\* Two adds and a reset are blocked at once: one add holds the writer slot
\* and waits for a running iteration to leave, the others wait for the slot.
C16_Witness ==
  /\ \E p \in Callers : pc[p] = "drain"
  /\ \E p \in Callers : pc[p] = "Lock"
  /\ tpc = "Lock"
  /\ \E s \in Samplers : spc[s] = "range"

(***************************************************************************)
(* C19.  reset clears all entries in one step: the step that ends it       *)
(* leaves the map empty, the map stays empty until an add succeeds, a      *)
(* forEach that starts in between has nothing to visit, a forEach only     *)
(* ever visits entries the map holds, and an add of a name that was        *)
(* registered before a reset and is not in the map now succeeds.           *)
(***************************************************************************)
C19_ResetClearsAll ==
  /\ [](adds = 0 => Registered = {})
  /\ [][ /\ ( tpc = "reset" /\ tpc' = "idle" ) => caches'.m = Empty /\ adds' = 0
         /\ \A s \in Readers :
              /\ ( spc[s] = "RLock" /\ spc'[s] = "range" /\ adds = 0 ) => todo'[s] = {}
              /\ \A n \in Names : VisitStep(s, n) => n \in Registered
         /\ \A p \in Callers :
              ( AddStep(p) /\ name[p] \in past /\ name[p] \notin Registered ) =>
                /\ pc'[p] = "CompareAndSwap"
                /\ name[p] \in DOMAIN caches'.m
                /\ ret' = ret
       ]_vars

\* After a reset a name of the epoch before is registered again, by a call
\* that returned nil.
C19_Witness ==
  /\ epoch = 1
  /\ "a" \in past
  /\ Registered = {"a"}
  /\ adds = 1
  /\ ret = NilErr
  /\ \A p \in Callers : pc[p] = "idle"

(***************************************************************************)
(* The permissive registry: cacheRegistry keeps a slice of                 *)
(* instrumentedCache{cache, name}; add appends without looking at the      *)
(* names, forEach ranges over the slice, reset sets it to nil.  The        *)
(* InstrumentCache of this variant calls add, which returns nothing, then  *)
(* the same gate and Meter lookup; its registerAllMetrics gives every      *)
(* instrument a callback of its own, each one calling registry.forEach.    *)
(* caches.m holds the slice, todo the entries forEach has yet to visit,    *)
(* spc the instrument whose callback runs.                                 *)
(***************************************************************************)
instrumentedCache(cache, n) == [cache |-> cache, name |-> n]

\* faulty variant: an entry whose name is already in the slice is dropped
addSliceUnique(r, cache, n) ==
  IF \E k \in 1..Len(r.m) : r.m[k].name = n
  THEN [nil |-> FALSE, m |-> r.m]
  ELSE [nil |-> FALSE, m |-> Append(r.m, instrumentedCache(cache, n))]

\* cacheRegistry.add of the slice registry, between Lock and Unlock
addSlice(r, cache, n) ==
  [nil |-> FALSE, m |-> Append(r.m, instrumentedCache(cache, n))]

\* cacheRegistry.reset of the slice registry: r.caches = nil
resetSlice(r) == [nil |-> TRUE, m |-> << >>]

\* Resolve the config and call registry.add, which takes the lock.
PermissiveInstrumentCache(p, n, c) ==
  /\ pc[p] = "idle"
  /\ Len(caches.m) < MaxEntries
  /\ CanLock
  /\ writer' = p
  /\ pc' = [pc EXCEPT ![p] = "append"]
  /\ name' = [name EXCEPT ![p] = n]
  /\ cfg' = [cfg EXCEPT ![p] = c]
  /\ UNCHANGED << caches, readers, metricsRegistered, metricsOnce, counters, ret,
                  given, sinkVars, samplerVars, tpc, ops, epoch, histVars >>

\* registry.add: append under the lock, Unlock; nothing is returned.
PermissiveAdd(p) ==
  /\ pc[p] = "append"
  /\ writer = p
  /\ caches' = addSlice(caches, CacheOf(p), name[p])
  /\ writer' = None
  /\ adds' = adds + 1
  /\ Goto(p, "CompareAndSwap")
  /\ UNCHANGED << readers, metricsRegistered, metricsOnce, counters,
                  sinkVars, samplerVars, tpc, ops, epoch, defined, clean, late, past >>

\* The gate of the permissive InstrumentCache: the same compare-and-swap.
PermissiveGate(p) ==
  /\ pc[p] = "CompareAndSwap"
  /\ LET r == CompareAndSwap(metricsRegistered, FALSE, TRUE) IN
       /\ metricsRegistered' = r.value
       /\ IF ~r.swapped THEN Return(p, NilErr) ELSE Goto(p, "Meter")
  /\ UNCHANGED << caches, lockVars, metricsOnce, counters,
                  sinkVars, samplerVars, tpc, ops, epoch, histVars >>

\* registerAllMetrics: six registerMetric calls in order, each creating an
\* instrument together with its callback; the first one that fails returns
\* its error, the last one's success returns nil.
RegisterMetrics(p) ==
  /\ pc[p] = "registerAllMetrics"
  /\ LET P == cfg[p].meterProvider IN
       /\ \A i \in MetricNames : instruments[P][i] < MaxRegs
       /\ \/ /\ MayFail(P)
             /\ \E k \in 0..(Len(Instruments) - 1) :
                  instruments' = [instruments EXCEPT ![P] = Created(@, k)]
             /\ Return(p, SinkError)
          \/ /\ instruments' = [instruments EXCEPT ![P] = Created(@, Len(Instruments))]
             /\ Return(p, NilErr)
  /\ UNCHANGED << caches, lockVars, metricsRegistered, metricsOnce, counters,
                  scopes, callbacks, samplerVars, tpc, ops, epoch, histVars >>

\* The sink invokes the callback of instrument i; forEach takes the read lock.
PermissiveCollect(s, P, i) ==
  /\ spc[s] = "idle"
  /\ instruments[P][i] > 0
  /\ CanRLock
  /\ readers' = readers \cup {s}
  /\ spc' = [spc EXCEPT ![s] = i]
  /\ sink' = [sink EXCEPT ![s] = P]
  /\ todo' = [todo EXCEPT ![s] = caches.m]
  /\ obs' = [obs EXCEPT ![s] = << >>]
  /\ UNCHANGED << caches, writer, metricsRegistered, metricsOnce, counters,
                  callerVars, sinkVars, tpc, ops, epoch, histVars >>

\* for _, ic := range r.caches { fn(ic) }: the visitor observes the next entry.
PermissiveVisit(s) ==
  /\ spc[s] \in MetricNames
  /\ todo[s] # << >>
  /\ LET ic == Head(todo[s]) IN
       obs' = [obs EXCEPT ![s] = Append(@, ObserveInt64(spc[s], counters[ic.cache], ic.name))]
  /\ todo' = [todo EXCEPT ![s] = Tail(@)]
  /\ UNCHANGED << caches, lockVars, metricsRegistered, metricsOnce, counters,
                  callerVars, sinkVars, spc, sink, tpc, ops, epoch, histVars >>

\* forEach: the deferred RUnlock; the callback returns nil.
PermissiveRUnlock(s) ==
  /\ spc[s] \in MetricNames
  /\ todo[s] = << >>
  /\ readers' = readers \ {s}
  /\ spc' = [spc EXCEPT ![s] = "idle"]
  /\ sink' = [sink EXCEPT ![s] = None]
  /\ obs' = [obs EXCEPT ![s] = << >>]
  /\ UNCHANGED << caches, writer, metricsRegistered, metricsOnce, counters,
                  callerVars, sinkVars, todo, tpc, ops, epoch, histVars >>

\* registry.reset() under the lock taken by ResetLock.
PermissiveReset ==
  /\ tpc = "reset"
  /\ writer = Tester
  /\ caches' = resetSlice(caches)
  /\ writer' = None
  /\ tpc' = "idle"
  /\ epoch' = epoch + 1
  /\ adds' = 0
  /\ UNCHANGED << readers, metricsRegistered, metricsOnce, counters,
                  callerVars, sinkVars, samplerVars, ops, defined, clean, late, past >>

PermissiveNext ==
  \/ \E p \in Callers, n \in Names, c \in Configs : PermissiveInstrumentCache(p, n, c)
  \/ \E p \in Callers : PermissiveAdd(p)
  \/ \E p \in Callers : PermissiveGate(p)
  \/ \E p \in Callers : Meter(p)
  \/ \E p \in Callers : RegisterMetrics(p)
  \/ \E s \in Samplers, P \in Providers, i \in MetricNames : PermissiveCollect(s, P, i)
  \/ \E s \in Samplers : PermissiveVisit(s)
  \/ \E s \in Samplers : PermissiveRUnlock(s)
  \/ ResetLock
  \/ PermissiveReset

PermissiveSpec == Init /\ [][PermissiveNext]_vars

\* the names of a sequence of entries or of observations, in order
NamesOf(entries) == [k \in 1..Len(entries) |-> entries[k].name]
ReportedNames(o) == [k \in 1..Len(o) |-> o[k].cache_name]

\* the callback run by s has ranged over the whole slice
SliceDone(s) == spc[s] \in MetricNames /\ todo[s] = << >>

(***************************************************************************)
(* C21.  Permissive registry: add never fails and always appends its       *)
(* entry at the end of the slice, so the slice holds one entry per add     *)
(* call since the last reset; forEach visits these entries one by one in   *)
(* insertion order, duplicate names included; and InstrumentCache never    *)
(* returns a duplicate-name error.                                         *)
(***************************************************************************)
C21_PermissiveAppends ==
  /\ [](/\ Len(caches.m) = adds
        /\ \A n \in Names : ret # Errorf(n)
        /\ \A s \in Samplers :
             spc[s] \in MetricNames =>
               /\ ReportedNames(obs[s]) \o NamesOf(todo[s]) = NamesOf(caches.m)
               /\ \A k \in 1..Len(obs[s]) : obs[s][k].inst = spc[s])
  /\ [][\A p \in Callers :
          (pc[p] = "append" /\ pc'[p] # "append") =>
            /\ caches'.m = Append(caches.m, instrumentedCache(CacheOf(p), name[p]))
            /\ pc'[p] = "CompareAndSwap"
            /\ adds' = adds + 1]_vars

\* a sample that has visited two entries of the same name, one per add, in
\* the order the adds were made, after a call returned nil for the second
C21_Witness ==
  \E s \in Samplers :
    /\ SliceDone(s)
    /\ adds = 2
    /\ NamesOf(caches.m) = <<"a", "a">>
    /\ caches.m[1].cache = "c2" /\ caches.m[2].cache = "c1"
    /\ ReportedNames(obs[s]) = <<"a", "a">>
    /\ ret = NilErr
    /\ \A p \in Callers : pc[p] = "idle"

\* positions of a call whose registry.add has returned nil
PastAdd == {"CompareAndSwap"} \cup RegistrationPath

(***************************************************************************)
(* C22.  Two goroutines call InstrumentCache with the same name at the     *)
(* same time (strict policy).  Whichever takes the lock first, exactly one *)
(* add stores its handle and goes on; the add of the other one finds the   *)
(* name, returns the duplicate-name error and leaves the map alone.  The   *)
(* map holds one entry per successful add, and as long as no reset has     *)
(* cleared it, a call that is past its add owns the entry of its name, so  *)
(* no two calls are past add with the same name.                           *)
(***************************************************************************)
C22_SameNameOneWinner ==
  /\ [](/\ adds = Cardinality(Registered)
        /\ epoch = 0 =>
             /\ \A p \in Callers :
                  pc[p] \in PastAdd =>
                    name[p] \in Registered /\ caches.m[name[p]] = CacheOf(p)
             /\ \A p, q \in Callers :
                  (p # q /\ pc[p] \in PastAdd /\ pc[q] \in PastAdd) => name[p] # name[q])
  /\ [][\A q \in Callers :
          AddStep(q) =>
            IF name[q] \in Registered
            THEN /\ ret' = Errorf(name[q])
                 /\ pc'[q] = "idle"
                 /\ caches' = caches
                 /\ adds' = adds
            ELSE /\ pc'[q] = "CompareAndSwap"
                 /\ caches'.m = (name[q] :> CacheOf(q)) @@ caches.m
                 /\ adds' = adds + 1]_vars

\* g2 is still inside InstrumentCache with the name "b", its handle stored,
\* and the call of g1 with the same name has returned the duplicate-name
\* error meanwhile; the map holds the one entry of g2
C22_Witness ==
  /\ epoch = 0
  /\ pc["g2"] = "CompareAndSwap" /\ name["g2"] = "b"
  /\ pc["g1"] = "idle" /\ ret = Errorf("b")
  /\ caches.m = ("b" :> "c2")
  /\ adds = 1

\* the names the sample of s has reported so far
Reported(s) == {obs[s][k].cache_name : k \in 1..Len(obs[s])}

(***************************************************************************)
(* C23.  A forEach iteration sees the registry of one instant.  The read   *)
(* lock is held from before the first visit until after the last one, so   *)
(* no add and no reset changes the map while any iteration is under way;   *)
(* the names already reported and the names still to visit are at every    *)
(* moment of the iteration the names of the map, and the names a finished  *)
(* callback invocation has reported are the map's names.                   *)
(***************************************************************************)
C23_IterationSeesOneInstant ==
  /\ [](\A s \in Readers :
          spc[s] = "range" =>
            /\ s \in readers
            /\ Reported(s) \cup todo[s] = Registered
            /\ Reported(s) \cap todo[s] = {}
            /\ SampleDone(s) => Reported(s) = Registered)
  /\ [][caches' # caches => (Iterating = {} /\ readers = {})]_vars

\* an iteration has visited "a" and has "b" still to visit while a reset
\* holds the writer slot and an InstrumentCache call waits for the lock:
\* neither takes effect before the iteration ends
C23_Witness ==
  \E s \in Readers :
    /\ spc[s] = "range"
    /\ Reported(s) = {"a"} /\ todo[s] = {"b"}
    /\ tpc = "drain"
    /\ \E p \in Callers : pc[p] = "Lock"
    /\ Registered = {"a", "b"}

\* a sink on which no instrument has been created
NoInstruments == [i \in MetricNames |-> 0]

\* sink P holds a scope, an instrument or a callback of this package
Touched(P) ==
  \/ scopes[P] > 0
  \/ callbacks[P] > 0
  \/ instruments[P] # NoInstruments

(***************************************************************************)
(* C24.  The definitions and the callback live only on the sink resolved   *)
(* by the call that won the gate.  A sink changes only in a step of a call *)
(* that is on the registration path and has resolved that very sink; a     *)
(* call that finds the flag set, whatever meterProvider it passed, returns *)
(* with every sink as it was and its entry in the registry; never do two   *)
(* sinks hold anything; and a sample runs only on a sink that holds the    *)
(* callback, where it reports every name of the registry.                  *)
(***************************************************************************)
C24_OnlyTheWinnersSink ==
  /\ [](/\ \A P \in Providers :
             Touched(P) => \A Q \in Providers : Touched(Q) => P = Q
        /\ \A s \in Samplers :
             spc[s] = "range" =>
               /\ callbacks[sink[s]] > 0
               /\ SampleDone(s) => Reported(s) = Registered)
  /\ [][/\ sinkVars' # sinkVars =>
             \E p \in Callers :
               /\ pc[p] \in RegistrationPath
               /\ \A P \in Providers \ {cfg[p].meterProvider} :
                    /\ scopes'[P] = scopes[P]
                    /\ instruments'[P] = instruments[P]
                    /\ callbacks'[P] = callbacks[P]
        /\ \A p \in Callers :
             (GateStep(p) /\ metricsRegistered) =>
               /\ sinkVars' = sinkVars
               /\ name[p] \in DOMAIN caches'.m
               /\ pc'[p] = "idle"]_vars

\* the callback is registered on the global sink; g2 has passed the custom
\* meterProvider, stored "b" and stands before the closed gate; a sample of
\* the global sink has reported "b", and the custom sink holds nothing
C24_Witness ==
  /\ metricsRegistered
  /\ callbacks["global"] = 1
  /\ pc["g2"] = "CompareAndSwap" /\ name["g2"] = "b"
  /\ cfg["g2"].meterProvider = "custom"
  /\ ~Touched("custom")
  /\ \E s \in Samplers :
       SampleDone(s) /\ sink[s] = "global" /\ "b" \in Reported(s)

\* the gate is closed, no call is on the registration path and no sink holds
\* the callback: the one registration of the epoch failed or was skipped
RegistrationLost ==
  /\ metricsRegistered
  /\ \A p \in Callers : pc[p] \notin RegistrationPath
  /\ \A P \in Providers : callbacks[P] = 0

(***************************************************************************)
(* C25.  Nothing is rolled back when the registration of the gate winner   *)
(* fails or is skipped.  The step in which the winner returns the sink's   *)
(* error, or nil for a nil meter, leaves the registry and the flag as they *)
(* are: the winner's entry is still there and the gate is still closed.    *)
(* From then on, for the rest of the epoch, no step changes any sink and   *)
(* no call enters the registration path, whatever sink it resolved, and a  *)
(* call whose name is in the registry returns the duplicate-name error.    *)
(***************************************************************************)
C25_NothingRolledBack ==
  [][/\ \A p \in Callers :
          (ReturnStep(p) /\ pc[p] \in RegistrationPath /\ callbacks' = callbacks) =>
            /\ ret' \in {SinkError, NilErr}
            /\ caches' = caches
            /\ name[p] \in Registered /\ caches.m[name[p]] = CacheOf(p)
            /\ metricsRegistered /\ metricsRegistered'
            /\ RegistrationLost'
     /\ (RegistrationLost /\ epoch' = epoch) =>
          /\ RegistrationLost'
          /\ sinkVars' = sinkVars
          /\ \A q \in Callers :
               (AddStep(q) /\ name[q] \in Registered) =>
                 ret' = Errorf(name[q]) /\ pc'[q] = "idle" /\ caches' = caches
    ]_vars

\* the first call, for "a" on the faulty sink, won the gate and returned the
\* sink's error; a call for "b" found the gate closed and returned; a retry
\* for "a" has now returned the duplicate-name error; no sink holds a callback
C25_Witness ==
  /\ epoch = 0
  /\ RegistrationLost
  /\ scopes["faulty"] = 1
  /\ \A P \in Providers \ {"faulty"} : ~Touched(P)
  /\ late = {"b"}
  /\ Registered = {"a", "b"}
  /\ ret = Errorf("a")
  /\ \A p \in Callers : pc[p] = "idle"

\* a < b for unsigned 64-bit values
Less64(a, b) ==
  \E k \in 1..4 : a[k] < b[k] /\ \A j \in 1..(k - 1) : a[j] = b[j]

\* v < w for signed 64-bit values
LessInt64(v, w) ==
  IF v.neg # w.neg THEN v.neg
  ELSE IF v.neg THEN Less64(w.mag, v.mag)
  ELSE Less64(v.mag, w.mag)

(***************************************************************************)
(* C26.  Each unsigned 64-bit counter is reported as the signed 64-bit     *)
(* value with the same bits.  A counter below 2^63 is reported as itself,  *)
(* a non-negative value; a counter of 2^63 or more is reported as the      *)
(* counter minus 2^64, a negative value.  So when a counter grows and      *)
(* stays below 2^63 the value reported for it grows with it, and when it   *)
(* grows from 2^63 - 1 to 2^63 the reported value drops below the one      *)
(* reported before.                                                        *)
(***************************************************************************)
C26_SignedConversion ==
  [][/\ obs' # obs =>
          \A s \in Samplers, n \in Names :
            VisitStep(s, n) =>
              \A k \in (Len(obs[s]) + 1)..Len(obs'[s]) :
                LET o == obs'[s][k]
                    u == counters[caches.m[n]][FieldOf(o.inst)]
                IN  IF u[1] < HalfLimb
                    THEN ~o.value.neg /\ o.value.mag = u
                    ELSE /\ o.value.neg
                         /\ o.value.mag # Zero64
                         /\ Add64(o.value.mag, u) = Zero64
     /\ counters' # counters =>
          \A c \in Handles, f \in Fields :
            counters'[c][f] # counters[c][f] =>
              LET u == counters[c][f]
                  w == counters'[c][f]
              IN  /\ w[1] < HalfLimb => LessInt64(ToInt64(u), ToInt64(w))
                  /\ u = MaxInt64 =>
                       /\ w = <<HalfLimb, 0, 0, 0>>
                       /\ LessInt64(ToInt64(w), ToInt64(u))
    ]_vars

\* one sample reports the hit counter of "a", which stands at 1, as 1, and
\* the hit counter of "b", which a hit has taken from 2^63 - 1 to 2^63, as
\* -2^63
C26_Witness ==
  \E s \in Samplers :
    /\ SampleDone(s)
    /\ ops = 1
    /\ caches.m = ("a" :> "c1") @@ ("b" :> "c2")
    /\ counters["c2"]["Hits"] = <<HalfLimb, 0, 0, 0>>
    /\ \E k \in 1..Len(obs[s]) :
         /\ obs[s][k].inst = "cache.hit" /\ obs[s][k].cache_name = "b"
         /\ obs[s][k].value = [neg |-> TRUE, mag |-> <<HalfLimb, 0, 0, 0>>]
    /\ \E k \in 1..Len(obs[s]) :
         /\ obs[s][k].inst = "cache.hit" /\ obs[s][k].cache_name = "a"
         /\ obs[s][k].value = [neg |-> FALSE, mag |-> <<0, 0, 0, 1>>]

====
